---- MODULE Spec2Model ----
(***************************************************************************)
(* World of Bits (D3): the grid world, the BoardState memento, the         *)
(* GameStateManager session state and the token click handler, modelled    *)
(* from the object-oriented iteration of the game (src/unnamed/part_001).  *)
(*                                                                         *)
(* Keys "i:j" are modelled as pairs <<i, j>>.  The deterministic generator *)
(* `luck` (./_luck.ts, not part of the sources) is a fixed table chosen at *)
(* Init from a bounded family; its draws are rationals n / LuckDenom.      *)
(***************************************************************************)
EXTENDS Integers, FiniteSets, Sequences, TLC

\* ---------------------------------------------------------------- bounds
\* The world is a window of GridW columns and two rows (j = -1 and j = 0)
\* of cells around the origin.
GridW == 2
\* Half-width (in cells) of the viewport around its centre cell.
ViewHalf == 0
\* Number of generator tables (seeds 0..MaxSeed) Init chooses from.
MaxSeed == 0
\* GameConfig.TOKEN_MAX_EXP and GameConfig.PROXIMITY_DETECT_RADIUS, scaled
\* down (the game ships 8 and 6; earlier iterations use 4 and 6).
TOKEN_MAX_EXP == 2
PROXIMITY_DETECT_RADIUS == 1

\* ------------------------------------------------------ program constants
\* GameConfig.TOKEN_SPAWN_PROBABILITY = 0.12 = SpawnProbNum / SpawnProbDen
SpawnProbNum == 12
SpawnProbDen == 100
\* Draws of the generator are n / LuckDenom with n in 0..LuckDenom-1.
LuckDenom == 100

Is == (0 - 1)..(GridW - 2)
Js == {0 - 1, 0}
Cells == [i : Is, j : Js]
Exps == 0..TOKEN_MAX_EXP

Pow2(n) == 2 ^ n
Abs(x) == IF x < 0 THEN 0 - x ELSE x

\* ------------------------------------------------------------ MapManager
getKey(cell) == <<cell.i, cell.j>>
parseKey(key) == [i |-> key[1], j |-> key[2]]
Keys == {getKey(cell) : cell \in Cells}

\* Faulty variant: the larger of the two axis distances.
distanceToPlayerChebyshev(cell, player) ==
    LET dx == Abs(cell.i - player.i)
        dy == Abs(cell.j - player.j)
    IN  IF dx > dy THEN dx ELSE dy

\* Faulty variant: only the column distance counts.
distanceToPlayerColumnsOnly(cell, player) == Abs(cell.i - player.i)

\* Manhattan distance between the player's cell and `cell`.
distanceToPlayer(cell, player) ==
    LET dx == Abs(cell.i - player.i)
        dy == Abs(cell.j - player.j)
    IN  dx + dy

\* The cell of CLASSROOM_LATLNG, where the player marker starts on every
\* page load; cell coordinates are taken relative to it.
CLASSROOM_CELL == [i |-> 0, j |-> 0]

\* Keys of the cells inside the viewport centred on cell `view`.
visibleKeys(view) ==
    {k \in Keys : /\ Abs(k[1] - view.i) <= ViewHalf
                  /\ Abs(k[2] - view.j) <= ViewHalf}

\* ------------------------------------------------------------ generator
\* Numerators the modelled generator can return (over LuckDenom).
LuckDraws == <<1, 2, 5, 8, 30, 70, 90, 97>>
\* Position of the draw for key + ":" + p in LuckDraws, a fixed mix of the
\* seed and the key.
LuckIndex(seed, k, p) ==
    IF p = "value"
    THEN (1 * (k[1] + 1) + 1 * (k[2] + 1) + 2 * seed + 4) % Len(LuckDraws)
    ELSE (1 * (k[1] + 1) + 7 * (k[2] + 1) + 7 * seed + 1) % Len(LuckDraws)
\* One deterministic table per seed: the numerator drawn for key + ":" + p.
LuckTable(seed, k, p) == LuckDraws[LuckIndex(seed, k, p) + 1]
LuckSeeds == 0..MaxSeed

\* ---------------------------------------------------------- TokenManager
\* _expWeights[e] = 1 / 2^e, scaled by 2^TOKEN_MAX_EXP to stay integral.
expWeight(e) == Pow2(TOKEN_MAX_EXP - e)
RECURSIVE expAcc(_)
expAcc(e) == IF e = 0 THEN expWeight(0) ELSE expAcc(e - 1) + expWeight(e)
expTotal == expAcc(TOKEN_MAX_EXP)
\* vRand < expDistribution[e], with vRand = n / LuckDenom
belowDistribution(n, e) == n * expTotal < LuckDenom * expAcc(e)
\* Faulty variant: the loop without its break, which keeps the last
\* exponent whose entry is above vRand.
exponentForLast(n) ==
    IF \E e \in Exps : belowDistribution(n, e)
    THEN CHOOSE e \in Exps : /\ belowDistribution(n, e)
                             /\ \A f \in Exps : f > e => ~belowDistribution(n, f)
    ELSE 0

\* The loop `for e .. if (vRand < expDistribution[e]) { exp = e; break }`,
\* exp stays 0 when no entry is above vRand.
exponentFor(n) ==
    IF \E e \in Exps : belowDistribution(n, e)
    THEN CHOOSE e \in Exps : /\ belowDistribution(n, e)
                             /\ \A f \in Exps : f < e => ~belowDistribution(n, f)
    ELSE 0
\* spawnRand < spawnProbability * expSpawnMultiplier[exp]
spawnsAt(n, e) == n * SpawnProbDen * Pow2(e) < SpawnProbNum * LuckDenom

NoToken == 0 - 1
Null == [null |-> TRUE]
NoDoc == [absent |-> TRUE]
\* Stored items that are not what the game writes:
\* a string JSON.parse rejects,
Unparseable == [malformed |-> "syntax"]
\* the JSON text "null",
JsonNull == [malformed |-> "null"]
\* a JSON object whose collectedSet is not iterable (a number).
BadCollectedSet(held, won) ==
    [malformed |-> "collectedSet", heldToken |-> held, hasWon |-> won]
isMalformed(item) == \E f \in DOMAIN item : f = "malformed"
NoPopup == "none"
\* No click handler is on the call stack.
Idle == [pc |-> 0]
\* No pure function is under test.
NoProbe == [fn |-> "none"]
\* The badge text "Holding: none"; otherwise the badge shows the value 2^exp.
HoldingNone == 0

VARIABLES
    luckSeed,      \* which generator table luckFn is
    playerCell,    \* cell of mapManager.playerMarker
    freeLook,      \* Game.freeLook
    viewCell,      \* centre cell of the map viewport
    heldToken,     \* GameStateManager.heldToken
    collectedSet,  \* GameStateManager.collectedSet
    hasWon,        \* GameStateManager.hasWon
    state,         \* BoardState.state (the memento map)
    tokensMap,     \* TokenManager.tokensMap: key -> exp of the rendered rect
    lsGame,        \* localStorage item "gameState"
    lsBoard,       \* localStorage item "boardState"
    popup,         \* the popup last opened by a click handler
    writeFailures, \* how many localStorage calls have thrown so far
    handler,       \* the click handler in flight and the statement it is at
    geolocation,   \* whether navigator.geolocation exists in this browser
    movementFacade, \* Game.movementFacade: useGPS, the two controllers' active
                   \* flags and currentController
    inventoryBadge, \* the value UIManager.inventoryBadge shows
    winBanner,     \* whether UIManager.winBanner has the class "show-win"
    probe          \* input and result of the pure function under test

vars == <<luckSeed, playerCell, freeLook, viewCell, heldToken, collectedSet,
          hasWon, state, tokensMap, lsGame, lsBoard, popup, writeFailures,
          handler, geolocation, movementFacade, inventoryBadge, winBanner,
          probe>>

\* What no handler of the game assigns: the browser's geolocation support
\* and the function probe.
fixedVars == <<geolocation, probe>>
\* The two elements of the status display.
uiVars == <<inventoryBadge, winBanner>>

\* ------------------------------------------------------- Map<K, V> helpers
EmptyMap == [k \in {} |-> NoToken]
MapSet(m, key, v) == [k \in (DOMAIN m) \cup {key} |-> IF k = key THEN v ELSE m[k]]
MapDelete(m, key) == [k \in (DOMAIN m) \ {key} |-> m[k]]

\* Array.from(set) and new Set(array)
RECURSIVE ArrayFrom(_)
ArrayFrom(S) ==
    IF S = {} THEN <<>>
    ELSE LET x == CHOOSE y \in S : TRUE IN <<x>> \o ArrayFrom(S \ {x})
SetOf(arr) == {arr[n] : n \in 1..Len(arr)}

\* Faulty variant: a throwing setItem leaves the item removed.
setItemTruncates(ok, item, doc) == IF ok THEN doc ELSE NoDoc

\* localStorage.setItem / removeItem; `ok` is FALSE when the call throws
\* (the callers catch and only warn).
setItem(ok, item, doc) == IF ok THEN doc ELSE item
removeItem(ok, item) == IF ok THEN NoDoc ELSE item

\* --------------------------------------------------------- status display
\* The label Game.updateStatusPanel computes: "Holding: none" or 2 ** exp.
holdingLabel(held) == IF held = Null THEN HoldingNone ELSE Pow2(held.exp)

\* Game.updateStatusPanel, run by the listeners of "stateChanged",
\* "inventoryUpdated" and "winConditionMet" after the fields were assigned.
updateStatusPanel ==
    /\ inventoryBadge' = holdingLabel(heldToken')
    /\ winBanner' = hasWon'

\* -------------------------------------------------------- MovementFacade
\* The facade after its constructor: the manual controller started.
MovementFacadeNew ==
    [useGPS |-> FALSE, manualActive |-> TRUE, gpsActive |-> FALSE,
     currentController |-> "manual"]

\* GPSMovementController.start: the active flag after the call; without
\* navigator.geolocation the flag is cleared again and no watch is set.
gpsStart(active, geo) == IF active THEN TRUE ELSE geo

\* MovementFacade.switchToManual
switchToManual(f) ==
    IF ~f.useGPS THEN f
    ELSE [useGPS |-> FALSE, manualActive |-> TRUE, gpsActive |-> FALSE,
          currentController |-> "manual"]

\* MovementFacade.switchToGPS
switchToGPS(f, geo) ==
    IF f.useGPS THEN f
    ELSE [useGPS |-> TRUE, manualActive |-> FALSE,
          gpsActive |-> gpsStart(f.gpsActive, geo),
          currentController |-> "gps"]

\* ------------------------------------------------------ GameStateManager
\* Faulty variant: one doubling short of the configured ceiling.
winValueOneShort == Pow2(TOKEN_MAX_EXP - 1)

WIN_VALUE == Pow2(TOKEN_MAX_EXP)

\* Faulty variant: compares the exponent, not the value 2^exp.
checkWinConditionExponent(held, won) ==
    IF held # Null /\ held.exp = WIN_VALUE THEN TRUE ELSE won

\* Faulty variant: the win is never recorded.
checkWinConditionNever(held, won) == won

\* checkWinCondition: the value of hasWon after the call
checkWinCondition(held, won) ==
    IF held # Null /\ Pow2(held.exp) = WIN_VALUE THEN TRUE ELSE won

\* Faulty variant: the collected keys are left out of the document.
gameDocumentDropsCollected(held, collected, won) ==
    [heldToken |-> held, collectedSet |-> <<>>, hasWon |-> won]

\* the document saveToLocalStorage writes under "gameState"
gameDocument(held, collected, won) ==
    [heldToken |-> held, collectedSet |-> ArrayFrom(collected), hasWon |-> won]

\* Faulty variant: hasWon is not restored from the document.
loadGameStateForgetsWon(item) ==
    IF item = NoDoc
    THEN [heldToken |-> Null, collectedSet |-> {}, hasWon |-> FALSE]
    ELSE [heldToken |-> item.heldToken,
          collectedSet |-> SetOf(item.collectedSet),
          hasWon |-> FALSE]

\* loadFromLocalStorage: the fields after construction
\* The fields keep their initial values when the item is absent, when
\* JSON.parse throws and when reading a property of null throws; the three
\* assignments run in order, so a throw in `new Set(...)` comes after
\* heldToken was assigned.
loadGameState(item) ==
    IF item = NoDoc \/ item = Unparseable \/ item = JsonNull
    THEN [heldToken |-> Null, collectedSet |-> {}, hasWon |-> FALSE]
    ELSE IF isMalformed(item)
    THEN [heldToken |-> item.heldToken, collectedSet |-> {}, hasWon |-> FALSE]
    ELSE [heldToken |-> item.heldToken,
          collectedSet |-> SetOf(item.collectedSet),
          hasWon |-> item.hasWon]

isCollected(key, collected) == key \in collected

\* Faulty variant: the key is not added to collectedSet.
collectTokenForgetsKey(token, wg) ==
    /\ heldToken' = token
    /\ collectedSet' = collectedSet
    /\ hasWon' = checkWinCondition(heldToken', hasWon)
    /\ lsGame' = setItem(wg, lsGame,
                         gameDocument(heldToken', collectedSet', hasWon'))
    /\ updateStatusPanel

\* collectToken(token); wg: whether the "gameState" write succeeds
collectToken(token, wg) ==
    /\ heldToken' = token
    /\ collectedSet' = collectedSet \cup {token.key}
    /\ hasWon' = checkWinCondition(heldToken', hasWon)
    /\ lsGame' = setItem(wg, lsGame,
                         gameDocument(heldToken', collectedSet', hasWon'))
    /\ updateStatusPanel

\* Faulty variant: saves and notifies without releasing the token.
clearHeldTokenKeeps(wg) ==
    /\ heldToken' = heldToken
    /\ lsGame' = setItem(wg, lsGame, gameDocument(heldToken, collectedSet, hasWon))
    /\ UNCHANGED <<collectedSet, hasWon>>
    /\ updateStatusPanel

\* Faulty variant: releasing the held token also forgets that its cell was
\* collected.
clearHeldTokenForgetsKey(wg) ==
    /\ heldToken' = Null
    /\ collectedSet' = collectedSet \ {heldToken.key}
    /\ lsGame' = setItem(wg, lsGame, gameDocument(Null, collectedSet', hasWon))
    /\ UNCHANGED hasWon
    /\ updateStatusPanel

\* clearHeldToken()
clearHeldToken(wg) ==
    /\ heldToken' = Null
    /\ lsGame' = setItem(wg, lsGame, gameDocument(Null, collectedSet, hasWon))
    /\ UNCHANGED <<collectedSet, hasWon>>
    /\ updateStatusPanel

\* GameStateManager.reset(); rg: whether removeItem succeeds
gameStateReset(rg) ==
    /\ heldToken' = Null
    /\ collectedSet' = {}
    /\ hasWon' = FALSE
    /\ lsGame' = removeItem(rg, lsGame)
    /\ updateStatusPanel

\* ------------------------------------------------------------ BoardState
Suppressed == [hasToken |-> FALSE]
\* Faulty variant: the record stores the exponent of one more doubling.
PresentOneMore(e) == [hasToken |-> TRUE, exp |-> e + 1]
Present(e) == [hasToken |-> TRUE, exp |-> e]

\* The document saveToLocalStorage writes under "boardState": the JSON
\* object with one property per key of the map.
boardDocument(st) == [object |-> st]

\* BoardState.loadFromLocalStorage: the memento map after construction
\* JSON.parse or Object.entries(null) throwing leaves the map empty.
loadBoardState(item) ==
    IF item = NoDoc \/ item = Unparseable \/ item = JsonNull THEN EmptyMap
    ELSE item.object

\* Faulty variant: the write comes first and a throw abandons the update.
boardStateSetWriteFirst(key, value, wb) ==
    /\ state' = IF wb THEN MapSet(state, key, value) ELSE state
    /\ lsBoard' = setItem(wb, lsBoard, boardDocument(state'))

\* Faulty variant: the record goes to storage but is not kept in the map.
boardStateSetSkipsMemory(key, value, wb) ==
    /\ state' = state
    /\ lsBoard' = setItem(wb, lsBoard, boardDocument(MapSet(state, key, value)))

\* Faulty variant: the map is replaced by the one new record.
boardStateSetReplaces(key, value, wb) ==
    /\ state' = MapSet(EmptyMap, key, value)
    /\ lsBoard' = setItem(wb, lsBoard, boardDocument(state'))

\* BoardState.set(key, value); wb: whether the "boardState" write succeeds
boardStateSet(key, value, wb) ==
    /\ state' = MapSet(state, key, value)
    /\ lsBoard' = setItem(wb, lsBoard, boardDocument(state'))

\* Faulty variant: the document is removed but the map is not cleared.
boardStateResetKeepsRecords(rb) ==
    /\ state' = state
    /\ lsBoard' = removeItem(rb, lsBoard)

\* BoardState.reset(); rb: whether removeItem succeeds
boardStateReset(rb) ==
    /\ state' = EmptyMap
    /\ lsBoard' = removeItem(rb, lsBoard)

\* ------------------------------------------------------------- generator
\* luckFn(key + ":" + purpose), as a numerator over LuckDenom
luckFn(key, purpose) == LuckTable(luckSeed, key, purpose)

\* The deterministic branch of trySpawnCell: the exponent drawn for the
\* key, NoToken when the spawn draw is not below the threshold.
generateToken(key) ==
    LET exp == exponentFor(luckFn(key, "value"))
    IN  IF ~spawnsAt(luckFn(key, "spawn"), exp) THEN NoToken ELSE exp

\* ------------------------------------------------- TokenManager.trySpawnCell
\* Faulty variant: a Present memento is ignored in favour of the generator.
trySpawnCellRegenerates(key, collected, st) ==
    IF isCollected(key, collected) THEN NoToken
    ELSE IF key \in DOMAIN st
         THEN IF st[key].hasToken = FALSE THEN NoToken ELSE generateToken(key)
         ELSE generateToken(key)

\* The exponent trySpawnCell renders for a key that has no rectangle yet,
\* NoToken when it returns without creating one.
trySpawnCell(key, collected, st) ==
    IF isCollected(key, collected) THEN NoToken
    ELSE IF key \in DOMAIN st
         THEN IF st[key].hasToken = FALSE THEN NoToken ELSE st[key].exp
         ELSE generateToken(key)

\* Whether trySpawnCell, for a key that has no rectangle, reaches the
\* luckFn calls.
consultsLuck(key, collected, st) ==
    /\ ~isCollected(key, collected)
    /\ key \notin DOMAIN st

\* Game.trySpawnCell: skip a cell whose memento says the token is gone,
\* else TokenManager.trySpawnCell.
gameTrySpawnCell(key, collected, st) ==
    IF key \in DOMAIN st /\ st[key].hasToken = FALSE THEN NoToken
    ELSE trySpawnCell(key, collected, st)

\* Faulty variant: a cell without a rectangle is filled from the generator
\* alone, whatever was collected or recorded.
spawnTokensFromGenerator(tm, view, collected, st) ==
    LET fresh == {k \in visibleKeys(view) \ DOMAIN tm :
                     generateToken(k) # NoToken}
    IN  [k \in (DOMAIN tm) \cup fresh |->
            IF k \in DOMAIN tm THEN tm[k] ELSE generateToken(k)]

\* Game.spawnTokens: Game.trySpawnCell for every cell of the viewport; a
\* cell that already has a rectangle keeps it.
spawnTokens(tm, view, collected, st) ==
    LET fresh == {k \in visibleKeys(view) \ DOMAIN tm :
                     gameTrySpawnCell(k, collected, st) # NoToken}
    IN  [k \in (DOMAIN tm) \cup fresh |->
            IF k \in DOMAIN tm THEN tm[k]
            ELSE gameTrySpawnCell(k, collected, st)]

\* TokenManager.reconcileVisible: evict off-screen entries, then
\* trySpawnCell for the visible cells that have no entry.
evictOffscreen(tm, view) == [k \in (DOMAIN tm) \cap visibleKeys(view) |-> tm[k]]
reconcileVisible(tm, view, collected, st) ==
    LET kept == evictOffscreen(tm, view)
        fresh == {k \in visibleKeys(view) \ DOMAIN kept :
                     trySpawnCell(k, collected, st) # NoToken}
    IN  [k \in (DOMAIN kept) \cup fresh |->
            IF k \in DOMAIN kept THEN kept[k]
            ELSE trySpawnCell(k, collected, st)]

\* ----------------------------------------------------------------- Init
\* First page load with an empty localStorage, in a browser with
\* (geo) or without navigator.geolocation: the badge and the banner are as
\* UIManager builds them and the Game constructor switches to GPS movement.
Startup(geo) ==
    /\ luckSeed \in LuckSeeds
    /\ playerCell = CLASSROOM_CELL
    /\ freeLook = FALSE
    /\ viewCell = CLASSROOM_CELL
    /\ heldToken = Null
    /\ collectedSet = {}
    /\ hasWon = FALSE
    /\ state = EmptyMap
    /\ lsGame = NoDoc
    /\ lsBoard = NoDoc
    /\ popup = NoPopup
    /\ tokensMap = spawnTokens(EmptyMap, CLASSROOM_CELL, {}, EmptyMap)
    /\ writeFailures = 0
    /\ handler = Idle
    /\ geolocation = geo
    /\ movementFacade = switchToGPS(MovementFacadeNew, geo)
    /\ inventoryBadge = HoldingNone
    /\ winBanner = FALSE

\* The first page load in a browser that has navigator.geolocation.
Init == Startup(TRUE) /\ probe = NoProbe

\* ------------------------------------------------- the rect click handler
\* Faulty variant: the popup branch also drops the held token.
rejectClickDropsHeld(msg) ==
    /\ popup' = msg
    /\ heldToken' = Null
    /\ UNCHANGED <<collectedSet, hasWon, state, tokensMap, lsGame, lsBoard,
                   uiVars>>

\* A branch that only opens a popup with the given message.
rejectClick(msg) ==
    /\ popup' = msg
    /\ UNCHANGED <<heldToken, collectedSet, hasWon, state, tokensMap,
                   lsGame, lsBoard, uiVars>>

\* Faulty variant: a token of another value is picked up in place of the
\* held one.
clickHandlerSwaps(key, wb, wg) ==
    LET cell == parseKey(key)
        exp == tokensMap[key]
        gridDist == distanceToPlayer(cell, playerCell)
    IN
    IF hasWon
    THEN rejectClick("GameComplete")
    ELSE IF gridDist <= PROXIMITY_DETECT_RADIUS
    THEN IF heldToken # Null /\ heldToken.exp = exp
         THEN IF exp < TOKEN_MAX_EXP
              THEN /\ tokensMap' = MapSet(tokensMap, key, exp + 1)
                   /\ boardStateSet(key, Present(exp + 1), wb)
                   /\ clearHeldToken(wg)
                   /\ UNCHANGED popup
              ELSE rejectClick("MaxValue")
         ELSE /\ tokensMap' = MapDelete(tokensMap, key)
              /\ boardStateSet(key, Suppressed, wb)
              /\ collectToken([key |-> key, exp |-> exp], wg)
              /\ UNCHANGED popup
    ELSE rejectClick("TooFar")

\* wb, wg: whether the "boardState" and "gameState" writes succeed.
clickHandler(key, wb, wg) ==
    LET cell == parseKey(key)
        exp == tokensMap[key]
        gridDist == distanceToPlayer(cell, playerCell)
    IN
    IF hasWon
    THEN rejectClick("GameComplete")
    ELSE IF gridDist <= PROXIMITY_DETECT_RADIUS
    THEN IF heldToken # Null
         THEN IF heldToken.exp = exp
              THEN IF exp < TOKEN_MAX_EXP
                   THEN \* merge: raise the map token, release the held one
                        /\ tokensMap' = MapSet(tokensMap, key, exp + 1)
                        /\ boardStateSet(key, Present(exp + 1), wb)
                        /\ clearHeldToken(wg)
                        /\ UNCHANGED popup
                   ELSE rejectClick("MaxValue")
              ELSE rejectClick("DifferentToken")
         ELSE \* collect
              /\ tokensMap' = MapDelete(tokensMap, key)
              /\ boardStateSet(key, Suppressed, wb)
              /\ collectToken([key |-> key, exp |-> exp], wg)
              /\ UNCHANGED popup
    ELSE rejectClick("TooFar")

\* A click on the rendered rectangle of `key`.
Click(key) ==
    /\ key \in DOMAIN tokensMap
    /\ key \in visibleKeys(viewCell)
    /\ clickHandler(key, TRUE, TRUE)
    /\ UNCHANGED <<luckSeed, playerCell, freeLook, viewCell, writeFailures,
                   handler, fixedVars, movementFacade>>

\* setTimeout(() => closePopup(popup), SPAWN_ANIMATION_DURATION_MS)
ClosePopup ==
    /\ popup # NoPopup
    /\ popup' = NoPopup
    /\ UNCHANGED <<luckSeed, playerCell, freeLook, viewCell, heldToken,
                   collectedSet, hasWon, state, tokensMap, lsGame, lsBoard,
                   writeFailures, handler, fixedVars, movementFacade, uiVars>>

\* ------------------------------------------------------------------ Game
DIRECTIONS == {<<0, 0 - 1>>, <<0 - 1, 0>>, <<1, 0>>, <<0, 1>>}

\* Faulty variant: the move also writes a Present record for every
\* rectangle, generated ones included.
playerMovedToRecordsSpawn(cell) ==
    /\ playerCell' = cell
    /\ viewCell' = IF freeLook THEN viewCell ELSE cell
    /\ tokensMap' = spawnTokens(tokensMap, viewCell', collectedSet, state)
    /\ state' = [k \in (DOMAIN state) \cup (DOMAIN tokensMap') |->
                   IF k \in DOMAIN state THEN state[k]
                   ELSE Present(tokensMap'[k])]
    /\ UNCHANGED <<luckSeed, freeLook, heldToken, collectedSet, hasWon,
                   lsGame, lsBoard, popup, writeFailures, handler,
                   fixedVars, movementFacade, uiVars>>

\* The player marker was moved to `cell`: follow it with the viewport unless
\* in free look, then spawn the tokens of the viewport.
playerMovedTo(cell) ==
    /\ playerCell' = cell
    /\ viewCell' = IF freeLook THEN viewCell ELSE cell
    /\ tokensMap' = spawnTokens(tokensMap, viewCell', collectedSet, state)
    /\ UNCHANGED <<luckSeed, freeLook, heldToken, collectedSet, hasWon, state,
                   lsGame, lsBoard, popup, writeFailures, handler,
                   fixedVars, movementFacade, uiVars>>

\* Faulty variant: the two components of the step are exchanged.
handlePlayerMoveSwapsAxes(dx, dy) ==
    LET target == [i |-> playerCell.i + dy, j |-> playerCell.j + dx]
    IN  /\ target \in Cells
        /\ playerMovedTo(target)

\* Game.handlePlayerMove(dx, dy), kept inside the modelled window
handlePlayerMove(dx, dy) ==
    LET target == [i |-> playerCell.i + dx, j |-> playerCell.j + dy]
    IN  /\ target \in Cells
        /\ playerMovedTo(target)

\* Game.handleGPSUpdate(lat, lng), with `cell` the cell of the new position
handleGPSUpdate(cell) ==
    /\ cell # playerCell
    /\ playerMovedTo(cell)

\* Game.setFreeLook(!freeLook), the view-mode toggle button
setFreeLook ==
    /\ freeLook' = ~freeLook
    /\ viewCell' = IF freeLook' THEN viewCell ELSE playerCell
    /\ tokensMap' = IF freeLook' THEN tokensMap
                    ELSE spawnTokens(tokensMap, viewCell', collectedSet, state)
    /\ UNCHANGED <<luckSeed, playerCell, heldToken, collectedSet, hasWon,
                   state, lsGame, lsBoard, popup, writeFailures, handler,
                   fixedVars, movementFacade, uiVars>>

\* The map was dragged to centre `cell` in free look: the "moveend" handler
\* runs reconcileVisible and then spawnTokens.
mapMoveEnd(cell) ==
    /\ freeLook
    /\ cell # viewCell
    /\ viewCell' = cell
    /\ tokensMap' = spawnTokens(
                       reconcileVisible(tokensMap, cell, collectedSet, state),
                       cell, collectedSet, state)
    /\ UNCHANGED <<luckSeed, playerCell, freeLook, heldToken, collectedSet,
                   hasWon, state, lsGame, lsBoard, popup, writeFailures,
                   handler, fixedVars, movementFacade, uiVars>>

\* The "zoomend" and "resize" handlers: spawnTokens on the current viewport.
viewportRefresh ==
    /\ tokensMap' = spawnTokens(tokensMap, viewCell, collectedSet, state)
    /\ UNCHANGED <<luckSeed, playerCell, freeLook, viewCell, heldToken,
                   collectedSet, hasWon, state, lsGame, lsBoard, popup,
                   writeFailures, handler, fixedVars, movementFacade, uiVars>>

\* A directional button: the move handler the Game constructor wires calls
\* ManualMovementController.movePlayer, which forwards to handlePlayerMove
\* only while that controller is active.
movePlayer(dx, dy) ==
    /\ movementFacade.manualActive
    /\ handlePlayerMove(dx, dy)

\* The geolocation watch of the started GPS controller delivers a position
\* in `cell`.
handlePosition(cell) ==
    /\ movementFacade.gpsActive
    /\ handleGPSUpdate(cell)

\* Game.switchMovementMode(useGPS)
switchMovementMode(gps) ==
    /\ movementFacade' = IF gps THEN switchToGPS(movementFacade, geolocation)
                         ELSE switchToManual(movementFacade)
    /\ UNCHANGED <<luckSeed, playerCell, freeLook, viewCell, heldToken,
                   collectedSet, hasWon, state, tokensMap, lsGame, lsBoard,
                   popup, writeFailures, handler, fixedVars, uiVars>>

\* "mouseover" or "click" on the player marker: onStateChange(), whose
\* "stateChanged" listener runs updateStatusPanel.
playerMarkerEvent ==
    /\ UNCHANGED <<luckSeed, playerCell, freeLook, viewCell, heldToken,
                   collectedSet, hasWon, state, tokensMap, lsGame, lsBoard,
                   popup, writeFailures, handler, fixedVars, movementFacade>>
    /\ updateStatusPanel

\* Game.resetGame (the onReset callback of the "Play again" button): gameState.reset(),
\* boardState.reset(), tokenManager.clearAll(), spawnTokens().
resetGame(rg, rb) ==
    /\ gameStateReset(rg)
    /\ boardStateReset(rb)
    /\ tokensMap' = spawnTokens(EmptyMap, viewCell, collectedSet', state')
    /\ UNCHANGED <<luckSeed, playerCell, freeLook, viewCell, popup,
                   fixedVars, movementFacade>>

ResetGame ==
    /\ resetGame(TRUE, TRUE)
    /\ UNCHANGED <<writeFailures, handler>>

\* A page load: BoardState and GameStateManager hydrate from localStorage,
\* the marker and the view start at the classroom, the Game constructor
\* spawns the tokens of the viewport, switches to GPS movement and locks the
\* view.  UIManager builds the badge as "Holding: none" and the banner
\* hidden; the constructor's onStateChange() emits "stateChanged" before
\* any listener is subscribed, so neither is updated during the load.
pageLoad(game, board) ==
    /\ playerCell' = CLASSROOM_CELL
    /\ viewCell' = CLASSROOM_CELL
    /\ freeLook' = FALSE
    /\ heldToken' = loadGameState(game).heldToken
    /\ collectedSet' = loadGameState(game).collectedSet
    /\ hasWon' = loadGameState(game).hasWon
    /\ state' = loadBoardState(board)
    /\ tokensMap' = spawnTokens(EmptyMap, CLASSROOM_CELL, collectedSet', state')
    /\ popup' = NoPopup
    /\ inventoryBadge' = HoldingNone
    /\ winBanner' = FALSE
    /\ movementFacade' = switchToGPS(MovementFacadeNew, geolocation)
    /\ UNCHANGED <<luckSeed, fixedVars>>

\* The browser reloads the page.
Reload ==
    /\ pageLoad(lsGame, lsBoard)
    /\ UNCHANGED <<lsGame, lsBoard, writeFailures, handler>>

\* The reset button: localStorage.clear(); location.reload()
ResetButton ==
    /\ lsGame' = NoDoc
    /\ lsBoard' = NoDoc
    /\ pageLoad(NoDoc, NoDoc)
    /\ UNCHANGED <<writeFailures, handler>>

\* Play in GPS movement, the mode every page load starts in.  The switch to
\* the manual controller and the directional buttons, whose steps are GPS
\* steps to a neighbouring cell, are exercised by SpecMovement.
Next ==
    \/ \E key \in Keys : Click(key)
    \/ ClosePopup
    \/ \E cell \in Cells : handlePosition(cell)
    \/ playerMarkerEvent
    \/ setFreeLook
    \/ \E cell \in Cells : mapMoveEnd(cell)
    \/ viewportRefresh
    \/ ResetGame
    \/ Reload
    \/ ResetButton

Spec == Init /\ [][Next]_vars

\* ------------------------------------------------- failing storage writes
\* How many localStorage calls are let throw in one run.
MaxWriteFailures == 1

\* Whether a click on `key` reaches a branch that writes to localStorage
\* (collect or merge).
writesStorage(key) ==
    /\ ~hasWon
    /\ distanceToPlayer(parseKey(key), playerCell) <= PROXIMITY_DETECT_RADIUS
    /\ IF heldToken = Null THEN TRUE
       ELSE heldToken.exp = tokensMap[key] /\ tokensMap[key] < TOKEN_MAX_EXP

failed(ok) == IF ok THEN 0 ELSE 1

\* A collect or merge click in which a localStorage.setItem call throws
\* (quota exceeded, storage unavailable); the stores catch the exception
\* and only warn.
ClickFail(key) ==
    /\ key \in DOMAIN tokensMap
    /\ key \in visibleKeys(viewCell)
    /\ writesStorage(key)
    /\ \E wb, wg \in BOOLEAN :
          /\ ~(wb /\ wg)
          /\ writeFailures + failed(wb) + failed(wg) <= MaxWriteFailures
          /\ writeFailures' = writeFailures + failed(wb) + failed(wg)
          /\ clickHandler(key, wb, wg)
    /\ UNCHANGED <<luckSeed, playerCell, freeLook, viewCell, handler,
                   fixedVars, movementFacade>>

\* Game.resetGame in which a localStorage.removeItem call throws.
ResetGameFail ==
    /\ \E rg, rb \in BOOLEAN :
          /\ ~(rg /\ rb)
          /\ writeFailures + failed(rg) + failed(rb) <= MaxWriteFailures
          /\ writeFailures' = writeFailures + failed(rg) + failed(rb)
          /\ resetGame(rg, rb)
    /\ UNCHANGED handler

\* Play in which some of the writes fail.
NextFail ==
    \/ \E key \in Keys : Click(key)
    \/ \E key \in Keys : ClickFail(key)
    \/ \E cell \in Cells : handlePosition(cell)
    \/ ResetGame
    \/ ResetGameFail
    \/ Reload

SpecFail == Init /\ [][NextFail]_vars

\* ------------------------------------------- documents the game did not write
\* Items another writer (another tab, an older build, the user) can leave
\* under the two storage keys.
GameDocs ==
    {Unparseable, JsonNull}
       \cup {BadCollectedSet([key |-> getKey(CLASSROOM_CELL), exp |-> e], TRUE) :
                e \in Exps}
BoardDocs == {Unparseable, JsonNull}

\* The stored items are replaced from outside the page.
TamperStorage ==
    /\ \/ \E g \in GameDocs : lsGame' = g /\ UNCHANGED lsBoard
       \/ \E b \in BoardDocs : lsBoard' = b /\ UNCHANGED lsGame
    /\ UNCHANGED <<luckSeed, playerCell, freeLook, viewCell, heldToken,
                   collectedSet, hasWon, state, tokensMap, popup,
                   writeFailures, handler, fixedVars, movementFacade, uiVars>>

\* Page loads from such items, followed by play.
NextMalformed ==
    \/ TamperStorage
    \/ Reload
    \/ \E key \in Keys : Click(key)
    \/ \E cell \in Cells : handlePosition(cell)

SpecMalformed == Init /\ [][NextMalformed]_vars

\* ------------------------------------------- the click handler, by statement
\* Faulty variant: the session state is updated and announced before the
\* overlay record is written.
collectStepsOverlayLast ==
    <<"tokensMap.delete", "heldToken", "collectedSet.add", "hasWon",
      "emit winConditionMet", "saveToLocalStorage", "emit inventoryUpdated",
      "onStateChange", "boardState.set", "return">>

\* The statements of the collect branch, with collectToken and
\* checkWinCondition inlined, in source order.
collectSteps ==
    <<"tokensMap.delete", "boardState.set", "heldToken", "collectedSet.add",
      "hasWon", "emit winConditionMet", "saveToLocalStorage",
      "emit inventoryUpdated", "onStateChange", "return">>

\* The statements of the merge branch, with clearHeldToken inlined.
mergeSteps ==
    <<"tokensMap.set", "boardState.set", "heldToken", "saveToLocalStorage",
      "emit inventoryUpdated", "onStateChange", "return">>

stepsOf(kind) == IF kind = "collect" THEN collectSteps ELSE mergeSteps

\* The statement the handler in flight is about to run.
statement == stepsOf(handler.kind)[handler.pc]

\* The statements at which control leaves the engine: listeners and the
\* onStateChange callback run synchronously inside them.
observationPoints ==
    {"emit winConditionMet", "emit inventoryUpdated", "onStateChange", "return"}

\* The statements whose listeners run Game.updateStatusPanel.
statusListeners ==
    {"emit winConditionMet", "emit inventoryUpdated", "onStateChange"}

\* An event handler is dispatched only when no other handler is running.
Dispatch(A) == handler = Idle /\ A

\* A click is dispatched: a rejecting branch runs to its end, a collect or
\* merge branch is entered with `exp` captured by the closure.
ClickBegin(key) ==
    /\ handler = Idle
    /\ key \in DOMAIN tokensMap
    /\ key \in visibleKeys(viewCell)
    /\ IF writesStorage(key)
       THEN /\ handler' = [pc |-> 1,
                           kind |-> IF heldToken = Null THEN "collect" ELSE "merge",
                           key |-> key,
                           exp |-> tokensMap[key]]
            /\ UNCHANGED <<heldToken, collectedSet, hasWon, state, tokensMap,
                           lsGame, lsBoard, popup, uiVars>>
       ELSE /\ clickHandler(key, TRUE, TRUE)
            /\ UNCHANGED handler
    /\ UNCHANGED <<luckSeed, playerCell, freeLook, viewCell, writeFailures,
                   fixedVars, movementFacade>>

\* The handler in flight runs its next statement.
HandlerStep ==
    /\ handler # Idle
    /\ LET key == handler.key
           exp == handler.exp
           collect == handler.kind = "collect"
       IN
       /\ tokensMap' =
             IF statement = "tokensMap.delete" THEN MapDelete(tokensMap, key)
             ELSE IF statement = "tokensMap.set" THEN MapSet(tokensMap, key, exp + 1)
             ELSE tokensMap
       /\ IF statement = "boardState.set"
          THEN boardStateSet(key, IF collect THEN Suppressed ELSE Present(exp + 1),
                             TRUE)
          ELSE UNCHANGED <<state, lsBoard>>
       /\ heldToken' =
             IF statement = "heldToken"
             THEN IF collect THEN [key |-> key, exp |-> exp] ELSE Null
             ELSE heldToken
       /\ collectedSet' =
             IF statement = "collectedSet.add" THEN collectedSet \cup {key}
             ELSE collectedSet
       /\ hasWon' =
             IF statement = "hasWon" THEN checkWinCondition(heldToken, hasWon)
             ELSE hasWon
       /\ lsGame' =
             IF statement = "saveToLocalStorage"
             THEN setItem(TRUE, lsGame, gameDocument(heldToken, collectedSet, hasWon))
             ELSE lsGame
       /\ handler' =
             IF statement = "return" THEN Idle
             ELSE IF statement = "hasWon" /\ ~checkWinCondition(heldToken, FALSE)
                  THEN [handler EXCEPT !.pc = @ + 2]
                  ELSE [handler EXCEPT !.pc = @ + 1]
       /\ IF statement \in statusListeners
          THEN inventoryBadge' = holdingLabel(heldToken) /\ winBanner' = hasWon
          ELSE UNCHANGED uiVars
    /\ UNCHANGED <<luckSeed, playerCell, freeLook, viewCell, popup,
                   writeFailures, fixedVars, movementFacade>>

NextSteps ==
    \/ \E key \in Keys : ClickBegin(key)
    \/ HandlerStep
    \/ \E cell \in Cells : Dispatch(handlePosition(cell))
    \/ Dispatch(ResetGame)

SpecSteps == Init /\ [][NextSteps]_vars

\* ------------------------------------------------ the rarity band, alone
\* The draws luck() can return, as numerators over LuckDenom.
Draws == 0..(LuckDenom - 1)

\* Two draws whose exponents are to be chosen.
RarityProbes ==
    {[fn |-> "exponentFor", args |-> <<u, v>>, results |-> <<>>] :
        u \in Draws, v \in Draws}

\* The exponent selection of trySpawnCell runs on the next draw.
applyExponentFor ==
    /\ probe.fn = "exponentFor"
    /\ Len(probe.results) < Len(probe.args)
    /\ probe' = [probe EXCEPT !.results =
                    Append(@, exponentFor(probe.args[Len(@) + 1]))]
    /\ UNCHANGED <<luckSeed, playerCell, freeLook, viewCell, heldToken,
                   collectedSet, hasWon, state, tokensMap, lsGame, lsBoard,
                   popup, writeFailures, handler, geolocation, movementFacade,
                   uiVars>>

InitRarity == Startup(TRUE) /\ probe \in RarityProbes
NextRarity == applyExponentFor
SpecRarity == InitRarity /\ [][NextRarity]_vars

\* ------------------------------------------------- the grid mapping, alone
\* Positions are points of the projected plane at the grid zoom, in units of
\* the rounding error of one unproject / project round trip.  A LatLng is
\* identified by the point map.project gives for it.
\* The cells whose mapping is exercised lie within MaxCell of cell (0, 0).
MaxCell == 2
\* MapManager.gridTileSize in those units (60 px in GameConfig).
gridTileSize == 4
\* MapManager.gridOrigin: map.project(latLng(0, 0), zoom), the centre of the
\* projected plane.
gridOrigin == [x |-> Pow2(26), y |-> Pow2(26)]
\* How far map.project(map.unproject(p)) can lie from p on an axis.
RoundErr == 1

\* Faulty variant: the offsets are truncated toward zero.
truncatingDiv(a, b) == IF a >= 0 THEN a \div b ELSE 0 - ((0 - a) \div b)
latLngToCellTruncates(latlng) ==
    [i |-> truncatingDiv(latlng.x - gridOrigin.x, gridTileSize),
     j |-> truncatingDiv(latlng.y - gridOrigin.y, gridTileSize)]

\* MapManager.latLngToCell: Math.floor of the offset over the tile size
latLngToCell(latlng) ==
    [i |-> (latlng.x - gridOrigin.x) \div gridTileSize,
     j |-> (latlng.y - gridOrigin.y) \div gridTileSize]

\* map.unproject(point, zoom): the positions the floating-point inverse
\* projection can return for `point`.
unproject(point) ==
    {[x |-> point.x + ex, y |-> point.y + ey] :
        ex \in (0 - RoundErr)..RoundErr, ey \in (0 - RoundErr)..RoundErr}

\* MapManager.cellToLatLngBounds: the corner tiles, unprojected
cellToLatLngBounds(cell) ==
    LET nwTile == [x |-> gridOrigin.x + cell.i * gridTileSize,
                   y |-> gridOrigin.y + cell.j * gridTileSize]
        seTile == [x |-> gridOrigin.x + (cell.i + 1) * gridTileSize,
                   y |-> gridOrigin.y + (cell.j + 1) * gridTileSize]
    IN  {[nw |-> nw, se |-> se] : nw \in unproject(nwTile), se \in unproject(seTile)}

\* Cells on both sides of the origin and the positions in and around them.
ProbeCells == {[i |-> i, j |-> j] : i, j \in (0 - MaxCell)..MaxCell}
ProbeOffsets == (0 - MaxCell * gridTileSize - 1)..((MaxCell + 1) * gridTileSize)
ProbePoints ==
    {[x |-> gridOrigin.x + dx, y |-> gridOrigin.y + dy] :
        dx \in ProbeOffsets, dy \in ProbeOffsets}
GridProbes ==
    {[fn |-> "latLngToCell", latlng |-> p, cell |-> <<>>] : p \in ProbePoints}
      \cup {[fn |-> "cellToLatLngBounds", cell |-> c, bounds |-> <<>>,
              back |-> <<>>] : c \in ProbeCells}

\* latLngToCell runs on the position.
applyLatLngToCell ==
    /\ probe.fn = "latLngToCell"
    /\ probe.cell = <<>>
    /\ probe' = [probe EXCEPT !.cell = <<latLngToCell(probe.latlng)>>]
    /\ UNCHANGED <<luckSeed, playerCell, freeLook, viewCell, heldToken,
                   collectedSet, hasWon, state, tokensMap, lsGame, lsBoard,
                   popup, writeFailures, handler, geolocation, movementFacade,
                   uiVars>>

\* cellToLatLngBounds runs on the cell.
applyCellToLatLngBounds ==
    /\ probe.fn = "cellToLatLngBounds"
    /\ probe.bounds = <<>>
    /\ \E b \in cellToLatLngBounds(probe.cell) :
          probe' = [probe EXCEPT !.bounds = <<b>>]
    /\ UNCHANGED <<luckSeed, playerCell, freeLook, viewCell, heldToken,
                   collectedSet, hasWon, state, tokensMap, lsGame, lsBoard,
                   popup, writeFailures, handler, geolocation, movementFacade,
                   uiVars>>

\* latLngToCell runs on the north-west corner of the bounds.
applyLatLngToCellOfCorner ==
    /\ probe.fn = "cellToLatLngBounds"
    /\ probe.bounds # <<>>
    /\ probe.back = <<>>
    /\ probe' = [probe EXCEPT !.back = <<latLngToCell(probe.bounds[1].nw)>>]
    /\ UNCHANGED <<luckSeed, playerCell, freeLook, viewCell, heldToken,
                   collectedSet, hasWon, state, tokensMap, lsGame, lsBoard,
                   popup, writeFailures, handler, geolocation, movementFacade,
                   uiVars>>

InitGrid == Startup(TRUE) /\ luckSeed = 0 /\ probe \in GridProbes
NextGrid ==
    \/ applyLatLngToCell
    \/ applyCellToLatLngBounds
    \/ applyLatLngToCellOfCorner
SpecGrid == InitGrid /\ [][NextGrid]_vars

\* --------------------------------------------- switching movement modes
\* Any sequence of switchToGPS / switchToManual calls and of movement
\* requests, in a browser with or without navigator.geolocation.
InitMovement == (\E geo \in BOOLEAN : Startup(geo)) /\ probe = NoProbe
NextMovement ==
    \/ \E gps \in BOOLEAN : switchMovementMode(gps)
    \/ \E d \in DIRECTIONS : movePlayer(d[1], d[2])
    \/ \E cell \in Cells : handlePosition(cell)
    \/ \E key \in Keys : Click(key)
SpecMovement == InitMovement /\ [][NextMovement]_vars

\* ------------------------------------------------------------ type check
TypeOK ==
    /\ luckSeed \in LuckSeeds
    /\ playerCell \in Cells /\ viewCell \in Cells
    /\ freeLook \in BOOLEAN /\ hasWon \in BOOLEAN
    /\ heldToken = Null \/ (heldToken.key \in Keys /\ heldToken.exp \in Exps)
    /\ collectedSet \subseteq Keys
    /\ DOMAIN state \subseteq Keys
    /\ DOMAIN tokensMap \subseteq Keys
    /\ \A k \in DOMAIN tokensMap : tokensMap[k] \in Exps
    /\ popup \in {"none", "GameComplete", "MaxValue", "DifferentToken", "TooFar"}
    /\ writeFailures \in 0..MaxWriteFailures
    /\ geolocation \in BOOLEAN
    /\ movementFacade.useGPS \in BOOLEAN
    /\ movementFacade.manualActive \in BOOLEAN
    /\ movementFacade.gpsActive \in BOOLEAN
    /\ movementFacade.currentController \in {"manual", "gps"}
    /\ inventoryBadge \in {HoldingNone} \cup {Pow2(e) : e \in Exps}
    /\ winBanner \in BOOLEAN
    /\ \/ handler = Idle
       \/ /\ handler.kind \in {"collect", "merge"}
          /\ handler.pc \in 1..Len(stepsOf(handler.kind))
          /\ handler.key \in Keys /\ handler.exp \in Exps

\* =================================================================== claims
\* WorldIndex.gridDistance of the specification: |di| + |dj|
gridDistance(a, b) == Abs(a.i - b.i) + Abs(a.j - b.j)
\* The cell of `key` is within proximityRadius of the player's cell.
InRange(key) == gridDistance(playerCell, parseKey(key)) <= PROXIMITY_DETECT_RADIUS
\* The part of the state the interaction engine may mutate: the session
\* state, the overlay store and both persisted documents.
engineState == <<heldToken, collectedSet, hasWon, state, lsGame, lsBoard>>

\* C1 (Collect): a click on a rendered token of exponent E, in range, with
\* hasWon false and nothing held, sets heldToken to {key, E}, writes the
\* Suppressed record for the key, adds the key to collectedSet, and the cell
\* then resolves to no token.
CollectTransition ==
    [][\A key \in Keys :
          (Click(key) /\ ~hasWon /\ heldToken = Null /\ InRange(key))
          => /\ heldToken' = [key |-> key, exp |-> tokensMap[key]]
             /\ key \in DOMAIN state' /\ state'[key] = Suppressed
             /\ key \in collectedSet'
             /\ trySpawnCell(key, collectedSet', state') = NoToken
             /\ key \notin DOMAIN tokensMap']_vars

\* A token has been collected and is being carried.
CollectWitness ==
    /\ heldToken # Null
    /\ heldToken.key \in collectedSet
    /\ heldToken.key \in DOMAIN state /\ state[heldToken.key] = Suppressed
    /\ ~hasWon

\* C2 (Merge): a click on an in-range token whose exponent E equals the
\* held exponent, E < maxExponent, hasWon false, writes Present(E + 1) for
\* the key, sets heldToken to null, and the cell resolves to exactly E + 1.
MergeTransition ==
    [][\A key \in Keys :
          (/\ Click(key) /\ ~hasWon /\ heldToken # Null /\ InRange(key)
           /\ tokensMap[key] = heldToken.exp
           /\ tokensMap[key] < TOKEN_MAX_EXP)
          => /\ key \in DOMAIN state'
             /\ state'[key] = Present(tokensMap[key] + 1)
             /\ heldToken' = Null
             /\ trySpawnCell(key, collectedSet', state') = tokensMap[key] + 1
             /\ tokensMap'[key] = tokensMap[key] + 1]_vars

\* A merge has happened: a cell holds a raised token and nothing is held.
MergeWitness ==
    /\ heldToken = Null
    /\ \E key \in DOMAIN state :
          /\ state[key].hasToken
          /\ key \in DOMAIN tokensMap /\ tokensMap[key] = state[key].exp
          /\ collectedSet # {}

\* C3: hasWon is true exactly when a token is held whose value 2^exp is
\* the win value.
WinIffHoldingWinValue ==
    hasWon <=> (heldToken # Null /\ Pow2(heldToken.exp) = WIN_VALUE)

\* The player holds the win-value token.
WinWitness == hasWon /\ heldToken # Null /\ heldToken.exp = TOKEN_MAX_EXP

CollectOf(key, e) ==
    /\ Click(key) /\ ~hasWon /\ InRange(key)
    /\ heldToken = Null /\ tokensMap[key] = e
\* The click on `key` is a successful merge whose result has exponent e.
MergeInto(key, e) ==
    /\ Click(key) /\ ~hasWon /\ InRange(key)
    /\ heldToken # Null /\ tokensMap[key] = heldToken.exp
    /\ tokensMap[key] < TOKEN_MAX_EXP /\ tokensMap[key] + 1 = e

\* C5 as stated: hasWon becomes true exactly at the step that reaches a
\* token of exponent maxExponent, by a collect or by a successful merge.
WinByCollectOrMerge ==
    [][~hasWon =>
          (hasWon' <=> \E key \in Keys : \/ CollectOf(key, TOKEN_MAX_EXP)
                                         \/ MergeInto(key, TOKEN_MAX_EXP))]_vars

\* C5, amended: hasWon becomes true exactly at the step that collects a
\* token of exponent maxExponent; a merge whose result has exponent
\* maxExponent leaves the raised token in the cell, releases the held
\* token and leaves hasWon false.
WinExactlyByCollect ==
    [][~hasWon =>
          /\ hasWon' <=> \E key \in Keys : CollectOf(key, TOKEN_MAX_EXP)
          /\ \A key \in Keys :
                MergeInto(key, TOKEN_MAX_EXP)
                => /\ ~hasWon' /\ heldToken' = Null
                   /\ tokensMap'[key] = TOKEN_MAX_EXP]_vars

\* A merge has produced a token of exponent maxExponent that lies in its
\* cell; nothing is held and the game is not won.
WinExactlyByCollectWitness ==
    /\ ~hasWon /\ heldToken = Null
    /\ \E key \in DOMAIN state \cap DOMAIN tokensMap :
          /\ state[key] = Present(TOKEN_MAX_EXP)
          /\ tokensMap[key] = TOKEN_MAX_EXP

\* The click on `key` has the held token and the in-range cell's token
\* both at exponent maxExponent.
CeilingClick(key) ==
    /\ Click(key) /\ InRange(key)
    /\ heldToken # Null /\ heldToken.exp = TOKEN_MAX_EXP
    /\ tokensMap[key] = TOKEN_MAX_EXP

\* C6 as stated: with the held token and the clicked in-range token both
\* at maxExponent the outcome is MergeRejectMaxValue and nothing changes.
MergeCeilingMaxValue ==
    [][\A key \in Keys :
          CeilingClick(key)
          => popup' = "MaxValue" /\ UNCHANGED <<engineState, tokensMap>>]_vars

\* C6, amended: with the held token and the clicked in-range token both at
\* maxExponent the game is already won, the outcome is GameWonBlocked and
\* nothing changes.
MergeCeilingBlocked ==
    [][\A key \in Keys :
          CeilingClick(key)
          => /\ hasWon
             /\ popup' = "GameComplete"
             /\ UNCHANGED <<engineState, tokensMap>>]_vars

\* A click was answered with the game-complete popup while the held token
\* and a rendered in-range token are both at maxExponent.
MergeCeilingWitness ==
    /\ popup = "GameComplete"
    /\ heldToken # Null /\ heldToken.exp = TOKEN_MAX_EXP
    /\ \E key \in DOMAIN tokensMap \cap visibleKeys(viewCell) :
          InRange(key) /\ tokensMap[key] = TOKEN_MAX_EXP

\* C7 as stated: a click on a cell farther than proximityRadius from the
\* player's cell returns TooFar and mutates nothing, whatever is held.
TooFarAlways ==
    [][\A key \in Keys :
          (Click(key) /\ ~InRange(key))
          => popup' = "TooFar" /\ UNCHANGED <<engineState, tokensMap>>]_vars

\* C7, amended: a click on a cell farther than proximityRadius from the
\* player's cell mutates nothing, whatever is held; its outcome is TooFar
\* when hasWon is false and GameWonBlocked when hasWon is true.
TooFarUnlessWon ==
    [][\A key \in Keys :
          (Click(key) /\ ~InRange(key))
          => /\ popup' = IF hasWon THEN "GameComplete" ELSE "TooFar"
             /\ UNCHANGED <<engineState, tokensMap>>]_vars

\* A click on an out-of-range rendered token was answered with the too-far
\* popup while a token is held.
TooFarWitness ==
    /\ popup = "TooFar"
    /\ heldToken # Null
    /\ \E key \in DOMAIN tokensMap \cap visibleKeys(viewCell) : ~InRange(key)

\* C8: a click whose outcome is GameWonBlocked (hasWon true) or
\* MergeRejectDifferentValue (in range, held exponent differs from the
\* cell's) leaves heldToken, collectedSet, hasWon, the overlay records and
\* both persisted documents unchanged.
RejectedClicksArePure ==
    [][\A key \in Keys :
          (/\ Click(key)
           /\ \/ hasWon
              \/ /\ InRange(key) /\ heldToken # Null
                 /\ heldToken.exp # tokensMap[key])
          => /\ popup' = IF hasWon THEN "GameComplete" ELSE "DifferentToken"
             /\ UNCHANGED engineState]_vars

\* A click was rejected because the held token differs from the cell's,
\* and the held token is still carried.
RejectedClickWitness ==
    /\ popup = "DifferentToken"
    /\ heldToken # Null
    /\ \E key \in DOMAIN tokensMap \cap visibleKeys(viewCell) :
          InRange(key) /\ tokensMap[key] # heldToken.exp

\* What an overlay record alone says the cell holds.
recordSays(rec) == IF rec.hasToken THEN rec.exp ELSE NoToken

\* C9: once a key has a Suppressed or Present record, then across every
\* step other than a full reset the key keeps a record, its resolution
\* (trySpawnCell, directly or through Game.trySpawnCell) is what the record
\* says without reaching the luck calls, and a rectangle rendered for it
\* carries the record's exponent.
OverridePermanence ==
    [][\A key \in DOMAIN state :
          \/ ResetGame
          \/ ResetButton
          \/ /\ key \in DOMAIN state'
             /\ trySpawnCell(key, collectedSet', state') = recordSays(state'[key])
             /\ gameTrySpawnCell(key, collectedSet', state')
                   = recordSays(state'[key])
             /\ ~consultsLuck(key, collectedSet', state')
             /\ key \in DOMAIN tokensMap'
                   => tokensMap'[key] = recordSays(state'[key])]_vars

\* A collected cell whose generator would spawn a token is in the viewport
\* with no rectangle, while a raised token whose record differs from the
\* generator's draw has been evicted from the render cache.
OverrideWitness ==
    /\ \E key \in DOMAIN state \cap visibleKeys(viewCell) :
          /\ state[key] = Suppressed
          /\ generateToken(key) # NoToken
          /\ key \notin DOMAIN tokensMap
    /\ \E key \in DOMAIN state :
          /\ state[key].hasToken
          /\ generateToken(key) # state[key].exp
          /\ key \notin DOMAIN tokensMap

\* C10: Game.resetGame leaves heldToken null, collectedSet empty, hasWon
\* false, no overlay record, both persisted documents removed, and every
\* key that had a record or was collected resolves, and is rendered in the
\* viewport, as the generator alone decides.
ResetRestoresGeneration ==
    [][ResetGame =>
          /\ heldToken' = Null /\ collectedSet' = {} /\ hasWon' = FALSE
          /\ DOMAIN state' = {}
          /\ lsGame' = NoDoc /\ lsBoard' = NoDoc
          /\ \A key \in (DOMAIN state) \cup collectedSet :
                /\ trySpawnCell(key, collectedSet', state') = generateToken(key)
                /\ key \in visibleKeys(viewCell)
                      => IF generateToken(key) = NoToken
                         THEN key \notin DOMAIN tokensMap'
                         ELSE /\ key \in DOMAIN tokensMap'
                              /\ tokensMap'[key] = generateToken(key)]_vars

\* The game was won, a click was answered with the game-complete popup,
\* and "Play again" has reset the game while that popup is still open.
ResetWitness ==
    /\ popup = "GameComplete"
    /\ ~hasWon /\ heldToken = Null /\ collectedSet = {}
    /\ DOMAIN state = {}
    /\ lsGame = NoDoc /\ lsBoard = NoDoc

\* What is rendered for a key: the exponent of its rectangle, if any.
renderedAt(tm, key) == IF key \in DOMAIN tm THEN tm[key] ELSE NoToken

\* C11 (round trip): with every storage write succeeding, a page load from
\* the persisted "gameState" and "boardState" documents yields the same
\* heldToken, collectedSet, hasWon and overlay records as were in memory
\* before it, so every key resolves as before and every cell of the start
\* viewport that was rendered is rendered with the same token.
RoundTripPersistence ==
    [][Reload =>
          /\ heldToken' = heldToken /\ collectedSet' = collectedSet
          /\ hasWon' = hasWon /\ state' = state
          /\ \A key \in Keys :
                /\ trySpawnCell(key, collectedSet', state')
                      = trySpawnCell(key, collectedSet, state)
                /\ (key \in visibleKeys(viewCell') /\ key \in visibleKeys(viewCell))
                      => renderedAt(tokensMap', key) = renderedAt(tokensMap, key)]_vars

\* The page shows the start viewport with a held token, collected keys and
\* a raised token all present in the persisted documents.
RoundTripWitness ==
    /\ playerCell = CLASSROOM_CELL /\ viewCell = CLASSROOM_CELL /\ ~freeLook
    /\ popup = NoPopup
    /\ DOMAIN tokensMap \subseteq visibleKeys(CLASSROOM_CELL)
    /\ lsGame # NoDoc /\ lsBoard # NoDoc
    /\ heldToken # Null /\ lsGame.heldToken = heldToken
    /\ Cardinality(collectedSet) >= 2
    /\ \E key \in DOMAIN state : state[key].hasToken /\ lsBoard.object[key] = state[key]

\* C12 (hydration): a page load from an absent or malformed "gameState"
\* item leaves heldToken null, collectedSet empty and hasWon false, and one
\* from an absent or malformed "boardState" item leaves the overlay empty.
HydrationFromMalformedIsEmpty ==
    [][Reload =>
          /\ (lsGame = NoDoc \/ isMalformed(lsGame))
                => heldToken' = Null /\ collectedSet' = {} /\ hasWon' = FALSE
          /\ (lsBoard = NoDoc \/ lsBoard = Unparseable \/ lsBoard = JsonNull)
                => state' = EmptyMap]_vars

\* The in-memory session state and overlay.
memoryState == <<heldToken, collectedSet, hasWon, state>>

\* C13 (failing writes): a collect, a merge or a reset in which setItem or
\* removeItem throws still makes every in-memory update of the transition
\* (no popup, no abandoned handler), and the memory stays what the session
\* goes by: a move re-reads nothing and every visible cell is rendered as
\* the in-memory overlay and session state resolve it.
FailingWritesSwallowed ==
    /\ [][/\ \A key \in Keys :
                (writeFailures' > writeFailures /\ ClickFail(key))
                => LET e == tokensMap[key] IN
                   IF heldToken = Null
                   THEN \* collect
                        /\ heldToken' = [key |-> key, exp |-> e]
                        /\ collectedSet' = collectedSet \cup {key}
                        /\ hasWon' = (Pow2(e) = WIN_VALUE)
                        /\ state' = MapSet(state, key, Suppressed)
                        /\ key \notin DOMAIN tokensMap'
                        /\ popup' = popup
                   ELSE \* merge
                        /\ heldToken' = Null
                        /\ state' = MapSet(state, key, Present(e + 1))
                        /\ renderedAt(tokensMap', key) = e + 1
                        /\ popup' = popup
                        /\ UNCHANGED <<collectedSet, hasWon>>
          /\ (writeFailures' > writeFailures /\ ResetGameFail)
                => /\ heldToken' = Null /\ collectedSet' = {} /\ hasWon' = FALSE
                   /\ state' = EmptyMap
                   /\ \A key \in Keys :
                         trySpawnCell(key, collectedSet', state') = generateToken(key)
          /\ playerCell' # playerCell
                => (UNCHANGED memoryState \/ ~handlePosition(playerCell'))]_vars
    /\ [](\A key \in visibleKeys(viewCell) :
             renderedAt(tokensMap, key)
                = gameTrySpawnCell(key, collectedSet, state))

\* A token is held and the overlay has a record although the "boardState"
\* write of the collect threw and nothing was ever persisted under it.
FailedWriteWitness ==
    /\ writeFailures > 0
    /\ heldToken # Null /\ heldToken.key \in DOMAIN state
    /\ lsBoard = NoDoc /\ lsGame # NoDoc

\* The click on `key` calls BoardState.set, with or without a failing write.
SetCall(key) ==
    /\ key \in DOMAIN tokensMap
    /\ writesStorage(key)
    /\ Click(key) \/ ClickFail(key)
\* The record that click passes to BoardState.set.
setRecord(key) ==
    IF heldToken = Null THEN Suppressed ELSE Present(tokensMap[key] + 1)

\* C14 as stated: BoardState.set either commits the record in memory and
\* in the persisted document, or retains the prior state.
SetNeverPartiallyFails ==
    [][\A key \in Keys :
          SetCall(key)
          => \/ /\ state' = MapSet(state, key, setRecord(key))
                /\ lsBoard' = boardDocument(state')
             \/ /\ state' = state
                /\ lsBoard' = lsBoard]_vars

\* C14, amended: BoardState.set always commits the record in memory; the
\* persisted document then either holds the whole new map or, when setItem
\* threw, is exactly what it was; the caller is not told and goes on to
\* update the session state.
SetCommitsInMemory ==
    [][\A key \in Keys :
          SetCall(key)
          => /\ state' = MapSet(state, key, setRecord(key))
             /\ lsBoard' = boardDocument(state') \/ lsBoard' = lsBoard
             /\ heldToken' # heldToken]_vars

\* A set whose write threw after an earlier one was persisted: the map has
\* a record that the persisted document lacks.
SetWitness ==
    /\ writeFailures > 0
    /\ lsBoard # NoDoc
    /\ \E key \in DOMAIN state : key \notin DOMAIN lsBoard.object

\* Control is about to leave the engine from inside a collect or merge.
AtObservationPoint == handler # Idle /\ statement \in observationPoints

\* The overlay, the session state and the render cache all show the
\* transition in flight as done.
WholeTransition ==
    LET key == handler.key
        exp == handler.exp
    IN  IF handler.kind = "collect"
        THEN /\ heldToken = [key |-> key, exp |-> exp]
             /\ key \in collectedSet
             /\ hasWon = (Pow2(exp) = WIN_VALUE)
             /\ key \in DOMAIN state /\ state[key] = Suppressed
             /\ renderedAt(tokensMap, key) = NoToken
             /\ trySpawnCell(key, collectedSet, state) = NoToken
        ELSE /\ heldToken = Null
             /\ key \in DOMAIN state /\ state[key] = Present(exp + 1)
             /\ renderedAt(tokensMap, key) = exp + 1
             /\ trySpawnCell(key, collectedSet, state) = exp + 1

\* C15 (atomic observation): whenever a collect or merge is about to invoke
\* a listener of "winConditionMet" or "inventoryUpdated", to call
\* onStateChange, or to return, the overlay record, heldToken, collectedSet
\* and hasWon already have their final values.
ObservedAtomically == AtObservationPoint => WholeTransition

\* A collect of a token of the winning value is about to notify the
\* "winConditionMet" listeners.
ObservedWinWitness ==
    /\ handler # Idle /\ handler.kind = "collect"
    /\ statement = "emit winConditionMet"
    /\ hasWon

\* C16 (single slot): while a token is held, every step keeps it, except
\* that a successful merge, Game.resetGame or the reset button empties the
\* slot; a click made while holding never adds a key to collectedSet,
\* never writes a Suppressed record and never removes a rectangle, so a
\* collect happens only with an empty slot.
SingleSlotInventory ==
    [][heldToken # Null =>
          /\ \/ heldToken' = heldToken
             \/ /\ heldToken' = Null
                /\ \/ \E key \in Keys : \E e \in Exps : MergeInto(key, e)
                   \/ ResetGame
                   \/ ResetButton
          /\ \A key \in Keys :
                Click(key)
                => /\ collectedSet' = collectedSet
                   /\ DOMAIN tokensMap' = DOMAIN tokensMap
                   /\ \A k \in DOMAIN state' :
                         state'[k] = Suppressed
                         => k \in DOMAIN state /\ state[k] = Suppressed]_vars

\* A token is held after an earlier merge, and a rendered token of another
\* value is in range to be clicked.
SingleSlotWitness ==
    /\ heldToken # Null /\ ~hasWon
    /\ \E k \in DOMAIN state : state[k].hasToken
    /\ \E key \in DOMAIN tokensMap :
          /\ key \in visibleKeys(viewCell) /\ InRange(key)
          /\ tokensMap[key] # heldToken.exp

\* C17 (exponent range): the held token's exponent, the exponent of every
\* Present record in memory and in the persisted documents, the exponent of
\* every rendered rectangle and the exponent every key resolves to are all
\* in 0..maxExponent.
ExponentsInRange ==
    /\ heldToken # Null => heldToken.exp \in Exps
    /\ \A k \in DOMAIN state : state[k].hasToken => state[k].exp \in Exps
    /\ \A k \in DOMAIN tokensMap : tokensMap[k] \in Exps
    /\ \A key \in Keys :
          /\ trySpawnCell(key, collectedSet, state) \in Exps \cup {NoToken}
          /\ generateToken(key) \in Exps \cup {NoToken}
    /\ lsGame # NoDoc /\ lsGame.heldToken # Null => lsGame.heldToken.exp \in Exps
    /\ lsBoard # NoDoc
          => \A k \in DOMAIN lsBoard.object :
                lsBoard.object[k].hasToken => lsBoard.object[k].exp \in Exps

\* A merge has raised a token to maxExponent: its record and its rectangle
\* carry that exponent and the slot is empty again.
ExponentCeilingWitness ==
    /\ heldToken = Null
    /\ \E k \in DOMAIN state :
          /\ state[k] = Present(TOKEN_MAX_EXP)
          /\ renderedAt(tokensMap, k) = TOKEN_MAX_EXP

sameResolutionInputs(key) ==
    /\ (key \in collectedSet') = (key \in collectedSet)
    /\ (key \in DOMAIN state') = (key \in DOMAIN state)
    /\ key \in DOMAIN state => state'[key] = state[key]

\* C19 (the map remembers): across every step other than a click on the
\* cell itself and a reset, what a cell holds is unchanged: a rectangle
\* that stays keeps its exponent, a cell whose rectangle is evicted
\* (reconcileVisible, or the render cache starting empty on a page load)
\* resolves to the exponent the rectangle had, a cell that is rendered
\* again gets the exponent it resolved to, and a cell without a rectangle
\* keeps its record and its collected mark; so collected cells stay empty
\* and merged cells keep the raised exponent.
MapRemembers ==
    [][\A key \in Keys :
          \/ IF key \in DOMAIN tokensMap
             THEN IF key \in DOMAIN tokensMap'
                  THEN tokensMap'[key] = tokensMap[key]
                  ELSE /\ trySpawnCell(key, collectedSet', state') = tokensMap[key]
                       /\ gameTrySpawnCell(key, collectedSet', state')
                             = tokensMap[key]
             ELSE IF key \in DOMAIN tokensMap'
                  THEN tokensMap'[key] = gameTrySpawnCell(key, collectedSet, state)
                  ELSE sameResolutionInputs(key)
          \/ Click(key)
          \/ ResetGame
          \/ ResetButton]_vars

\* In free look the viewport shows a raised token, rendered from its record
\* with an exponent the generator would not draw, and it is the only
\* rectangle in the render cache although an untouched cell elsewhere
\* generates a token.
MapRemembersWitness ==
    /\ freeLook
    /\ \E key \in DOMAIN state \cap visibleKeys(viewCell) :
          /\ state[key].hasToken
          /\ generateToken(key) # state[key].exp
          /\ DOMAIN tokensMap = {key}
          /\ tokensMap[key] = state[key].exp
    /\ \E key \in Keys \ collectedSet :
          key \notin DOMAIN state /\ generateToken(key) # NoToken

\* The key has no overlay record and is not in collectedSet.
neverTouched(key, collected, st) == key \notin collected /\ key \notin DOMAIN st

\* C20 (resolution is read-only): the session state, the overlay and both
\* persisted documents change only in a click, a reset or a page load, so
\* the steps that only resolve cells (moves, free look, "moveend",
\* "zoomend" / "resize") write nothing; a key gets an overlay record only
\* in a click on it, or on a page load from a document that has it; a
\* never-touched key resolves to the same result before and after every
\* step; and resolving the viewport once more changes nothing.
ResolutionReadOnly ==
    /\ [][/\ \/ UNCHANGED engineState
             \/ \E key \in Keys : Click(key)
             \/ ResetGame
             \/ ResetButton
             \/ Reload
          /\ \A key \in DOMAIN state' :
                \/ key \in DOMAIN state
                \/ Click(key)
                \/ Reload /\ key \in DOMAIN loadBoardState(lsBoard)
          /\ \A key \in Keys :
                (neverTouched(key, collectedSet, state)
                    /\ neverTouched(key, collectedSet', state'))
                => trySpawnCell(key, collectedSet', state')
                      = trySpawnCell(key, collectedSet, state)]_vars
    /\ [](spawnTokens(tokensMap, viewCell, collectedSet, state) = tokensMap)

\* Away from the start cell, with a record in the overlay, several
\* rectangles are rendered and one of them is of a never-touched key.
ResolutionWitness ==
    /\ playerCell # CLASSROOM_CELL
    /\ DOMAIN state # {}
    /\ Cardinality(DOMAIN tokensMap) >= 2
    /\ \E key \in DOMAIN tokensMap : neverTouched(key, collectedSet, state)

\* F(e) of the weights w(e) = 2^(-e), e in 0..maxExponent, as the fraction
\* rarityNum(e) / rarityDen: (2 - 2^(-e)) / (2 - 2^(-maxExponent)).
rarityNum(e) == Pow2(TOKEN_MAX_EXP + 1) - Pow2(TOKEN_MAX_EXP - e)
rarityDen == Pow2(TOKEN_MAX_EXP + 1) - 1
\* u < F(e) for the draw u = n / LuckDenom
belowF(n, e) == n * rarityDen < LuckDenom * rarityNum(e)

\* C21: the exponent chosen for a draw u is the smallest e with u < F(e),
\* F being the cumulative distribution of the weights 2^(-e); it lies in
\* [0, maxExponent] for every u in [0, 1) and does not decrease as u grows.
RarityBandSelection ==
    probe.fn = "exponentFor" =>
       /\ \A k \in 1..Len(probe.results) :
             LET n == probe.args[k]
                 e == probe.results[k]
             IN  /\ e \in Exps
                 /\ belowF(n, e)
                 /\ \A f \in Exps : f < e => ~belowF(n, f)
       /\ \A k, l \in 1..Len(probe.results) :
             probe.args[k] <= probe.args[l]
                => probe.results[k] <= probe.results[l]

\* Both draws were resolved: the lower one to the commonest exponent, the
\* higher one to the rarest.
RarityBandWitness ==
    /\ probe.fn = "exponentFor"
    /\ Len(probe.results) = 2
    /\ probe.args[1] < probe.args[2]
    /\ probe.results[1] = 0
    /\ probe.results[2] = TOKEN_MAX_EXP

\* latLngToCell put the position in the cell whose half-open extent
\* [i * size, (i + 1) * size) per axis holds its offset from the origin.
FloorPerAxis ==
    (probe.fn = "latLngToCell" /\ probe.cell # <<>>) =>
       LET relX == probe.latlng.x - gridOrigin.x
           relY == probe.latlng.y - gridOrigin.y
           c == probe.cell[1]
       IN  /\ c.i * gridTileSize <= relX /\ relX < (c.i + 1) * gridTileSize
           /\ c.j * gridTileSize <= relY /\ relY < (c.j + 1) * gridTileSize
           /\ \A i \in (0 - MaxCell - 1)..(MaxCell + 1) :
                 (i * gridTileSize <= relX /\ relX < (i + 1) * gridTileSize)
                    => c.i = i

\* C22 as stated: toCell is floor division per axis, negative offsets
\* included, and cellBounds is its inverse: toCell of a cell's north-west
\* corner returns that cell and the bounds span exactly one cell size per
\* axis.
GridFloorAndInverse ==
    /\ FloorPerAxis
    /\ (probe.fn = "cellToLatLngBounds" /\ probe.bounds # <<>>) =>
          LET b == probe.bounds[1]
          IN  /\ b.se.x - b.nw.x = gridTileSize
              /\ b.se.y - b.nw.y = gridTileSize
              /\ probe.back # <<>> => probe.back[1] = probe.cell

\* C22, amended: toCell is floor division per axis, negative offsets
\* included; the corners cellBounds returns lie within the rounding error
\* of the cell's corners, so toCell of the north-west corner returns the
\* cell or, per axis, its neighbour one lower.
GridFloorAndBounds ==
    /\ FloorPerAxis
    /\ (probe.fn = "cellToLatLngBounds" /\ probe.bounds # <<>>) =>
          LET b == probe.bounds[1]
              c == probe.cell
          IN  /\ Abs(b.nw.x - (gridOrigin.x + c.i * gridTileSize)) <= RoundErr
              /\ Abs(b.nw.y - (gridOrigin.y + c.j * gridTileSize)) <= RoundErr
              /\ Abs(b.se.x - (gridOrigin.x + (c.i + 1) * gridTileSize)) <= RoundErr
              /\ Abs(b.se.y - (gridOrigin.y + (c.j + 1) * gridTileSize)) <= RoundErr
              /\ probe.back # <<>> =>
                    /\ probe.back[1].i \in {c.i - 1, c.i}
                    /\ probe.back[1].j \in {c.j - 1, c.j}

\* The corner of a cell west of the origin came back one column lower.
GridBoundsWitness ==
    /\ probe.fn = "cellToLatLngBounds"
    /\ probe.back # <<>>
    /\ probe.cell.i < 0
    /\ probe.back[1].i = probe.cell.i - 1
    /\ probe.back[1].j = probe.cell.j

\* The cell one step of (dx, dy) away from the player's.
stepFrom(cell, d) == [i |-> cell.i + d[1], j |-> cell.j + d[2]]

\* What a move must leave alone.
sessionAndOverlay == <<heldToken, collectedSet, hasWon, state>>

\* C23: a directional button press in manual mode, handlePlayerMove(dx, dy)
\* with one of the four unit steps, changes the player's cell by exactly
\* (dx, dy); moving, by button or by a GPS position, never changes
\* heldToken, collectedSet, hasWon or any overlay record.
MoveOnlyMoves ==
    [][(\A d \in DIRECTIONS :
          (movementFacade.manualActive /\ movePlayer(d[1], d[2])) =>
             (/\ playerCell' = stepFrom(playerCell, d)
              /\ UNCHANGED sessionAndOverlay))
       /\ ((movementFacade.gpsActive /\ handlePosition(playerCell')) =>
              UNCHANGED sessionAndOverlay)]_vars

\* The manual controller is active and the player has walked out of reach
\* of the cell whose token is held, whose Suppressed record is still there.
MoveWitness ==
    /\ movementFacade.manualActive
    /\ heldToken # Null
    /\ IF heldToken = Null THEN FALSE
       ELSE /\ gridDistance(parseKey(heldToken.key), playerCell)
                  > PROXIMITY_DETECT_RADIUS
            /\ heldToken.key \in DOMAIN state

\* The keys whose overlay record is Suppressed.
suppressedKeys == {k \in DOMAIN state : state[k] = Suppressed}

isAbsent(st, key) == key \notin DOMAIN st
isSuppressed(st, key) == key \in DOMAIN st /\ st[key] = Suppressed
isPresent(st, key) == key \in DOMAIN st /\ st[key] # Suppressed
hasRecord(st, key, rec) == key \in DOMAIN st /\ st[key] = rec

\* The step is the collect of `key`, or a merge into it.
collects(key) ==
    /\ heldToken = Null /\ ~hasWon
    /\ key \in DOMAIN tokensMap /\ InRange(key)
    /\ Click(key)
mergesTo(key, e) ==
    /\ heldToken # Null /\ ~hasWon
    /\ key \in DOMAIN tokensMap /\ InRange(key)
    /\ tokensMap[key] = heldToken.exp
    /\ tokensMap[key] < TOKEN_MAX_EXP /\ tokensMap[key] + 1 = e
    /\ Click(key)
merges(key) == \E e \in Exps : mergesTo(key, e)

\* The step is one of the two resets.
resets == state' = EmptyMap /\ (ResetGame \/ ResetButton)

resolved(key) ==
    IF key \in collectedSet THEN NoToken
    ELSE IF key \in DOMAIN state THEN recordSays(state[key])
    ELSE generateToken(key)

\* C26: for every key in tokensMap the cached exponent, which is the exp of
\* the rectangle's click handler, is what the resolver returns from
\* collectedSet, the overlay record and the generator; no key in
\* collectedSet has a tokensMap entry.
CacheAgreesWithModel ==
    /\ \A key \in DOMAIN tokensMap : tokensMap[key] = resolved(key)
    /\ collectedSet \cap DOMAIN tokensMap = {}

\* The cache holds a rectangle whose exponent comes from a Present record,
\* another that comes from the generator, and a collected cell has none.
CacheAgreesWitness ==
    /\ collectedSet # {}
    /\ \E key \in DOMAIN tokensMap \cap DOMAIN state :
          tokensMap[key] = state[key].exp /\ tokensMap[key] # generateToken(key)
    /\ \E key \in DOMAIN tokensMap : key \notin DOMAIN state

\* The Suppressed keys of the overlay st.
suppressedIn(st) == {k \in DOMAIN st : st[k] = Suppressed}

\* Every token the generator placed is still somewhere: on the board, or
\* its cell is in the collected set.
noTokenVanished(collected, st) ==
    \A key \in Keys :
       generateToken(key) # NoToken =>
          \/ trySpawnCell(key, collected, st) # NoToken
          \/ key \in collected

\* C27: whichever of the boardState and gameState writes of a collect or
\* merge sequence failed, a reload hydrates a state in which collectedSet
\* is the set of Suppressed keys and no token has vanished.
ReloadHydratesConsistent ==
    [][Reload =>
          /\ collectedSet' = suppressedIn(state')
          /\ noTokenVanished(collectedSet', state')]_vars

\* C28: once a handler or the startup has finished, the inventory badge
\* shows 2^exp of the held token, or that nothing is held, and the win
\* banner is shown exactly when hasWon; in particular right after a page
\* load that hydrated a held token or the win flag.
DisplayMatchesSession ==
    /\ inventoryBadge = IF heldToken = Null THEN HoldingNone
                        ELSE 2 ^ heldToken.exp
    /\ winBanner = hasWon

\* MovementFacade.getCurrentController names an active controller.
currentIsActive ==
    IF movementFacade.currentController = "manual"
    THEN movementFacade.manualActive
    ELSE movementFacade.gpsActive

\* C29: after any sequence of switchToGPS / switchToManual calls, a GPS
\* start without geolocation support included, exactly one movement
\* controller is active, it is the one getCurrentController returns and
\* isUsingGPS reports, and a directional-button request can move the
\* player only while the manual controller is active.
ExactlyOneControllerActive ==
    /\ movementFacade.manualActive # movementFacade.gpsActive
    /\ currentIsActive
    /\ movementFacade.useGPS <=> movementFacade.currentController = "gps"
    /\ (ENABLED (\E d \in DIRECTIONS : movePlayer(d[1], d[2])))
          => movementFacade.manualActive

====
